---- MODULE Spec2Model ----
(***************************************************************************)
(* bananascript: the tree-walking evaluator (src/evaluator/evaluator.go)   *)
(* and the statement parser (src/parser/statement_parser.go).              *)
(*                                                                         *)
(* Three specifications share the module.  Spec runs evalProgram over a    *)
(* Program drawn from a bounded set of syntax trees; ParseSpec runs the    *)
(* statement parser over a token stream drawn from a bounded set;          *)
(* BlockSpec runs parseBlockStatement, one iteration of its loop per step. *)
(***************************************************************************)
EXTENDS Integers, Sequences, FiniteSets

(***************************************************************************)
(* Bounds of the model.                                                    *)
(***************************************************************************)
\* Width of the modelled Integer (int64 in the source, scaled down).
IntBits == 5
\* Loop iterations plus function invocations one evaluation may spend.
MaxSteps == 4

(***************************************************************************)
(* Syntax tree nodes, as the evaluator reads them.                         *)
(***************************************************************************)
IntegerLiteral(v) == [k |-> "IntegerLiteral", v |-> v]
FloatLiteral(n, d) == [k |-> "FloatLiteral", n |-> n, d |-> d]
StringLiteral(s) == [k |-> "StringLiteral", s |-> s]
BooleanLiteral(b) == [k |-> "BooleanLiteral", b |-> b]
NullLiteral == [k |-> "NullLiteral"]
VoidLiteral == [k |-> "VoidLiteral"]
Identifier(name) == [k |-> "Identifier", name |-> name]
InfixExpression(op, l, r) == [k |-> "InfixExpression", op |-> op, l |-> l, r |-> r]
PrefixExpression(op, e) == [k |-> "PrefixExpression", op |-> op, e |-> e]
CallExpression(f, args) == [k |-> "CallExpression", f |-> f, args |-> args]
AssignmentExpression(name, e) == [k |-> "AssignmentExpression", name |-> name, e |-> e]
IncrementExpression(name, op, pre) == [k |-> "IncrementExpression", name |-> name, op |-> op, pre |-> pre]
MemberAccessExpression(e, member) == [k |-> "MemberAccessExpression", e |-> e, member |-> member]
ExpressionStatement(e) == [k |-> "ExpressionStatement", e |-> e]
LetStatement(name, e) == [k |-> "LetStatement", name |-> name, e |-> e]
FunctionDefinitionStatement(name, params, body, thisType) == [k |-> "FunctionDefinitionStatement", name |-> name, params |-> params, body |-> body, thisType |-> thisType]
ReturnStatement(e) == [k |-> "ReturnStatement", e |-> e]
BlockStatement(stmts) == [k |-> "BlockStatement", stmts |-> stmts]
IfStatement(c, s, alt) == [k |-> "IfStatement", c |-> c, s |-> s, alt |-> alt]
WhileStatement(c, s) == [k |-> "WhileStatement", c |-> c, s |-> s]
TypeDefinitionStatement(name) == [k |-> "TypeDefinitionStatement", name |-> name]
\* A nil Alternative of an IfStatement.
NoNode == [k |-> "nil"]

(***************************************************************************)
(* Runtime objects.  An Object is a pointer: an address into objs, 0 for   *)
(* the nil interface value.  The cell behind it is one of these records.   *)
(***************************************************************************)
IntegerObject(v) == [t |-> "Integer", v |-> v]
\* A float64 is kept as the exact rational n/d, d >= 0; d = 0 is +Inf (n = 1),
\* -Inf (n = -1) or NaN (n = 0).  Rounding is not modelled.
FloatObject(n, d) == [t |-> "Float", n |-> n, d |-> d]
StringObject(s) == [t |-> "String", s |-> s]
BooleanObject(b) == [t |-> "Boolean", b |-> b]
NullObject == [t |-> "Null"]
ErrorObject(msg) == [t |-> "Error", msg |-> msg]
ReturnObject(obj) == [t |-> "Return", obj |-> obj]
FunctionObject(params, body, environment, this) == [t |-> "Function", params |-> params, body |-> body, env |-> environment, this |-> this]
\* What a constructor yields where the Go runtime panics instead of returning.
PanicCell == [t |-> "Panic"]

\* The pair (Object, runtime state) every evaluation step returns.
Ret(r, st) == [r |-> r, st |-> st]

\* The dynamic type of an Object, "nil" for the nil interface value.
TypeOf(st, a) == IF a = 0 THEN "nil" ELSE st.objs[a].t

(***************************************************************************)
(* The runtime state threaded through an evaluation:                      *)
(*   objs   the heap of Object cells                                       *)
(*   envs   the Environments, each a parent and a store name -> address    *)
(*   members the type member table, <<type, name>> -> address              *)
(*   log    one event per finished Eval call: node kind, nesting depth,    *)
(*          function-call depth, Environment, result                       *)
(*   d, fd  nesting depth of the running Eval, and of function calls       *)
(*   fuel   steps left before the evaluation is cut off as diverging       *)
(*   halt   "" while running, "panic" after a Go runtime panic,            *)
(*          "diverge" when cut off; a halted state no longer changes       *)
(*   calls  number of function bodies entered                              *)
(***************************************************************************)
NewEnvironment == [objs |-> <<>>, envs |-> <<[parent |-> 0, store |-> <<>>]>>, members |-> <<>>, log |-> <<>>, d |-> 0, fd |-> 0, fuel |-> MaxSteps, halt |-> "", calls |-> 0]

Halted(st) == st.halt # ""

\* A Go runtime panic unwinds the whole evaluation.
Panic(st) == Ret(0, IF Halted(st) THEN st ELSE [st EXCEPT !.halt = "panic"])

\* &T{...}: a fresh cell.
Alloc(st, cell) == IF Halted(st) THEN Ret(0, st) ELSE IF cell = PanicCell THEN Panic(st) ELSE Ret(Len(st.objs) + 1, [st EXCEPT !.objs = Append(@, cell)])

\* One loop iteration or function invocation.
Tick(st) == IF Halted(st) THEN st ELSE IF st.fuel = 0 THEN [st EXCEPT !.halt = "diverge"] ELSE [st EXCEPT !.fuel = @ - 1]

NewError(st, msg) == Alloc(st, ErrorObject(msg))

isError(st, a) == a # 0 /\ st.objs[a].t = "Error"

(***************************************************************************)
(* Environment: a chain of scopes.  An Environment is its index in envs.   *)
(***************************************************************************)
\* A child scope of environment; the compile-time Context it is given is not
\* read by the evaluator and is left out.
ExtendEnvironment(st, environment) == IF Halted(st) THEN [env |-> environment, st |-> st] ELSE [env |-> Len(st.envs) + 1, st |-> [st EXCEPT !.envs = Append(@, [parent |-> environment, store |-> <<>>])]]

\* The nearest scope of the chain that binds name, 0 if none does.
RECURSIVE ScopeOf(_, _, _)
ScopeOf(st, environment, name) == IF environment = 0 THEN 0 ELSE IF name \in DOMAIN st.envs[environment].store THEN environment ELSE ScopeOf(st, st.envs[environment].parent, name)

\* store[name] := obj.
Bind(store, name, obj) == [n \in DOMAIN store \cup {name} |-> IF n = name THEN obj ELSE store[n]]

\* Inserts into the current scope only, with no redefinition check.
DefineObject(st, environment, name, obj) == IF Halted(st) THEN st ELSE [st EXCEPT !.envs[environment].store = Bind(@, name, obj)]

\* Walks from the current scope outward.
GetObject(st, environment, name) == LET s == ScopeOf(st, environment, name) IN IF s = 0 THEN [obj |-> 0, exists |-> FALSE] ELSE [obj |-> st.envs[s].store[name], exists |-> TRUE]

\* Walks outward to an existing binding and rebinds it; creates none.
AssignObject(st, environment, name, obj) == LET s == ScopeOf(st, environment, name) IN IF s = 0 THEN [obj |-> 0, ok |-> FALSE, st |-> st] ELSE [obj |-> obj, ok |-> TRUE, st |-> IF Halted(st) THEN st ELSE [st EXCEPT !.envs[s].store = Bind(@, name, obj)]]

\* The side table keyed by (type, member name).
DefineTypeMember(st, type, name, obj) == IF Halted(st) THEN st ELSE [st EXCEPT !.members = Bind(@, <<type, name>>, obj)]

GetTypeMember(st, type, name) == IF <<type, name>> \in DOMAIN st.members THEN [obj |-> st.members[<<type, name>>], ok |-> TRUE] ELSE [obj |-> 0, ok |-> FALSE]

(***************************************************************************)
(* Values.                                                                 *)
(***************************************************************************)
\* Two's-complement wrap-around of the Integer width.
Wrap(v) == ((v + 2^(IntBits - 1)) % 2^IntBits) - 2^(IntBits - 1)

Abs(v) == IF v < 0 THEN -v ELSE v

Sign(v) == IF v < 0 THEN -1 ELSE IF v > 0 THEN 1 ELSE 0

\* Go's integer division: truncated toward zero (right # 0).
TruncDiv(left, right) == IF (left < 0) # (right < 0) THEN -(Abs(left) \div Abs(right)) ELSE Abs(left) \div Abs(right)

RECURSIVE GCD(_, _)
GCD(a, b) == IF b = 0 THEN a ELSE GCD(b, a % b)

\* The float n/d in lowest terms with d >= 0.
Float(n, d) == IF d = 0 THEN FloatObject(Sign(n), 0) ELSE LET g == GCD(Abs(n), Abs(d)) IN FloatObject((Sign(d) * n) \div g, Abs(d) \div g)

IsNaN(f) == f.d = 0 /\ f.n = 0

FloatAdd(x, y) == IF x.d = 0 /\ y.d = 0 THEN (IF x.n = y.n THEN x ELSE FloatObject(0, 0)) ELSE Float(x.n * y.d + y.n * x.d, x.d * y.d)

FloatNeg(x) == FloatObject(-x.n, x.d)

FloatMul(x, y) == Float(x.n * y.n, x.d * y.d)

FloatDiv(x, y) == Float(x.n * y.d, x.d * y.n)

FloatLess(x, y) == ~IsNaN(x) /\ ~IsNaN(y) /\ x # y /\ x.n * y.d < y.n * x.d

FloatEq(x, y) == ~IsNaN(x) /\ x = y

\* float64(v)
ToFloat(v) == FloatObject(v, 1)

RECURSIVE NatToString(_)
NatToString(n) == LET digit == <<"0", "1", "2", "3", "4", "5", "6", "7", "8", "9">>[(n % 10) + 1] IN IF n < 10 THEN digit ELSE NatToString(n \div 10) \o digit

\* Object.ToString: the textual rendering used by string concatenation.
ToString(cell) == CASE cell.t = "String" -> cell.s
      [] cell.t = "Integer" -> (IF cell.v < 0 THEN "-" \o NatToString(-cell.v) ELSE NatToString(cell.v))
      [] cell.t = "Boolean" -> (IF cell.b THEN "true" ELSE "false")
      [] cell.t = "Null" -> "null"
      [] OTHER -> "<" \o cell.t \o ">"

implicitBoolConversion(st, object) == CASE TypeOf(st, object) = "Boolean" -> st.objs[object].b
      [] TypeOf(st, object) = "Integer" -> st.objs[object].v # 0
      [] TypeOf(st, object) = "Float" -> ~(st.objs[object].n = 0 /\ st.objs[object].d # 0)
      [] TypeOf(st, object) = "String" -> Len(st.objs[object].s) # 0
      [] OTHER -> TRUE

\* reflect.DeepEqual on two Objects: equal pointers, or cells of one type with
\* equal fields (a NaN differs from every other float cell).
evalEquals(st, left, right) == \/ left = right
      \/ /\ left # 0
         /\ right # 0
         /\ st.objs[left].t = st.objs[right].t
         /\ IF st.objs[left].t = "Float" THEN FloatEq(st.objs[left], st.objs[right]) ELSE st.objs[left] = st.objs[right]

(***************************************************************************)
(* The evaluator.  Every eval function takes the node, the Environment and *)
(* the runtime state, and returns Ret(object, state).                      *)
(***************************************************************************)
RECURSIVE Eval(_, _, _)
RECURSIVE evalArguments(_, _, _, _)
RECURSIVE evalBlockStatements(_, _, _, _)
RECURSIVE evalBlockStatementsPastReturn(_, _, _, _)
RECURSIVE evalWhileStatement(_, _, _)
RECURSIVE DefineParameters(_, _, _, _, _)

evalPrefixExpression(prefixExpression, environment, st) == LET object == Eval(prefixExpression.e, environment, st) IN
      IF isError(object.st, object.r) THEN object
      ELSE IF prefixExpression.op = "!" THEN Alloc(object.st, BooleanObject(~implicitBoolConversion(object.st, object.r)))
      ELSE IF prefixExpression.op = "-" /\ TypeOf(object.st, object.r) = "Integer" THEN Alloc(object.st, IntegerObject(Wrap(-object.st.objs[object.r].v)))
      ELSE IF prefixExpression.op = "-" /\ TypeOf(object.st, object.r) = "Float" THEN Alloc(object.st, FloatNeg(object.st.objs[object.r]))
      ELSE NewError(object.st, "Unknown prefix operator")

\* The func(left, right int64) Object literals handed to evalNumericInfix.
\* Integer division by zero is a Go runtime panic.
intConstructor(op, left, right) == CASE op = "<" -> BooleanObject(left < right)
      [] op = ">" -> BooleanObject(left > right)
      [] op = "<=" -> BooleanObject(left <= right)
      [] op = ">=" -> BooleanObject(left >= right)
      [] op = "+" -> IntegerObject(Wrap(left + right))
      [] op = "-" -> IntegerObject(Wrap(left - right))
      [] op = "/" -> (IF right = 0 THEN PanicCell ELSE IntegerObject(Wrap(TruncDiv(left, right))))
      [] op = "*" -> IntegerObject(Wrap(left * right))

\* The func(left, right float64) Object literals handed to evalNumericInfix.
floatConstructor(op, left, right) == CASE op = "<" -> BooleanObject(FloatLess(left, right))
      [] op = ">" -> BooleanObject(FloatLess(right, left))
      [] op = "<=" -> BooleanObject(FloatLess(left, right) \/ FloatEq(left, right))
      [] op = ">=" -> BooleanObject(FloatLess(right, left) \/ FloatEq(left, right))
      [] op = "+" -> FloatAdd(left, right)
      [] op = "-" -> FloatAdd(left, FloatNeg(right))
      [] op = "/" -> FloatDiv(left, right)
      [] op = "*" -> FloatMul(left, right)

evalNumericInfix(st, left, right, op) == CASE TypeOf(st, left) = "Integer" /\ TypeOf(st, right) = "Integer" -> Alloc(st, intConstructor(op, st.objs[left].v, st.objs[right].v))
      [] TypeOf(st, left) = "Integer" /\ TypeOf(st, right) = "Float" -> Alloc(st, floatConstructor(op, ToFloat(st.objs[left].v), st.objs[right]))
      [] TypeOf(st, left) = "Float" /\ TypeOf(st, right) = "Integer" -> Alloc(st, floatConstructor(op, st.objs[left], ToFloat(st.objs[right].v)))
      [] TypeOf(st, left) = "Float" /\ TypeOf(st, right) = "Float" -> Alloc(st, floatConstructor(op, st.objs[left], st.objs[right]))
      [] OTHER -> NewError(st, "Invalid infix operator")

\* The switch on the operator, once both operands are evaluated.  ToString on
\* a nil Object is a nil dereference.
evalInfixOperator(st, op, leftObject, rightObject) == CASE op = "==" -> Alloc(st, BooleanObject(evalEquals(st, leftObject, rightObject)))
      [] op = "!=" -> Alloc(st, BooleanObject(~evalEquals(st, leftObject, rightObject)))
      [] op \in {"<", ">", "<=", ">=", "-", "/", "*"} -> evalNumericInfix(st, leftObject, rightObject, op)
      [] op = "+" -> (IF TypeOf(st, leftObject) = "String" \/ TypeOf(st, rightObject) = "String"
                      THEN (IF leftObject = 0 \/ rightObject = 0 THEN Panic(st) ELSE Alloc(st, StringObject(ToString(st.objs[leftObject]) \o ToString(st.objs[rightObject]))))
                      ELSE evalNumericInfix(st, leftObject, rightObject, op))
      [] OTHER -> NewError(st, "Unknown infix operator")

\* evalInfixExpression with the right operand evaluated before the operator
\* is looked at.
evalInfixExpressionEager(infixExpression, environment, st) == LET leftObject == Eval(infixExpression.l, environment, st) IN
      IF isError(leftObject.st, leftObject.r) THEN leftObject
      ELSE LET rightObject == Eval(infixExpression.r, environment, leftObject.st) IN
           IF isError(rightObject.st, rightObject.r) THEN rightObject
           ELSE IF infixExpression.op = "&&" THEN Alloc(rightObject.st, BooleanObject(implicitBoolConversion(rightObject.st, leftObject.r) /\ implicitBoolConversion(rightObject.st, rightObject.r)))
           ELSE IF infixExpression.op = "||" THEN Alloc(rightObject.st, BooleanObject(implicitBoolConversion(rightObject.st, leftObject.r) \/ implicitBoolConversion(rightObject.st, rightObject.r)))
           ELSE evalInfixOperator(rightObject.st, infixExpression.op, leftObject.r, rightObject.r)

evalInfixExpression(infixExpression, environment, st) == LET leftObject == Eval(infixExpression.l, environment, st) IN
      IF isError(leftObject.st, leftObject.r) THEN leftObject
      ELSE IF infixExpression.op = "&&" /\ ~implicitBoolConversion(leftObject.st, leftObject.r) THEN Alloc(leftObject.st, BooleanObject(FALSE))
      ELSE IF infixExpression.op = "||" /\ implicitBoolConversion(leftObject.st, leftObject.r) THEN Alloc(leftObject.st, BooleanObject(TRUE))
      ELSE LET rightObject == Eval(infixExpression.r, environment, leftObject.st) IN
           IF isError(rightObject.st, rightObject.r) THEN rightObject
           ELSE IF infixExpression.op \in {"&&", "||"} THEN Alloc(rightObject.st, BooleanObject(implicitBoolConversion(rightObject.st, rightObject.r)))
           ELSE evalInfixOperator(rightObject.st, infixExpression.op, leftObject.r, rightObject.r)

\* evalAssignmentExpression with an unbound name defined in the current scope.
evalAssignmentExpressionDefining(assignmentExpression, environment, st) == LET object == Eval(assignmentExpression.e, environment, st) IN
      IF isError(object.st, object.r) THEN object
      ELSE LET assigned == AssignObject(object.st, environment, assignmentExpression.name, object.r) IN
           IF assigned.ok THEN Ret(assigned.obj, assigned.st) ELSE Ret(object.r, DefineObject(object.st, environment, assignmentExpression.name, object.r))

evalAssignmentExpression(assignmentExpression, environment, st) == LET object == Eval(assignmentExpression.e, environment, st) IN
      IF isError(object.st, object.r) THEN object
      ELSE LET assigned == AssignObject(object.st, environment, assignmentExpression.name, object.r) IN
           IF assigned.ok THEN Ret(assigned.obj, assigned.st) ELSE NewError(object.st, "Cannot resolve variable")

\* The argument loop of evalCallExpression: every argument is evaluated and
\* appended, whatever it evaluates to.
evalArguments(arguments, i, environment, st) == IF i > Len(arguments) THEN [objs |-> <<>>, st |-> st]
      ELSE LET argument == Eval(arguments[i], environment, st)
               rest == evalArguments(arguments, i + 1, environment, argument.st)
           IN [objs |-> <<argument.r>> \o rest.objs, st |-> rest.st]

DefineParameters(st, environment, parameters, arguments, i) == IF i > Len(parameters) \/ i > Len(arguments) THEN st ELSE DefineParameters(DefineObject(st, environment, parameters[i], arguments[i]), environment, parameters, arguments, i + 1)

\* Function.Execute: a child of the captured Environment binds the parameters
\* (the bound receiver first), and the body is evaluated in it.
Execute(st, function, arguments) == LET entered == Tick(st)
          fn == st.objs[function]
          all == IF fn.this = 0 THEN arguments ELSE <<fn.this>> \o arguments
          extended == ExtendEnvironment([entered EXCEPT !.calls = @ + 1, !.fd = @ + 1], fn.env)
          returned == Eval(fn.body, extended.env, DefineParameters(extended.st, extended.env, fn.params, all, 1))
      IN IF Halted(entered) THEN Ret(0, entered) ELSE [r |-> returned.r, st |-> [returned.st EXCEPT !.fd = st.fd]]

evalCallExpression(callExpression, environment, st) == LET function == Eval(callExpression.f, environment, st) IN
      IF isError(function.st, function.r) THEN function
      ELSE IF TypeOf(function.st, function.r) = "Function"
      THEN LET argumentObjects == evalArguments(callExpression.args, 1, environment, function.st)
               returned == Execute(argumentObjects.st, function.r, argumentObjects.objs)
           IN IF TypeOf(returned.st, returned.r) = "Return" THEN Ret(returned.st.objs[returned.r].obj, returned.st) ELSE returned
      ELSE NewError(function.st, "Cannot call non-function")

evalIdentifierExpression(identifier, environment, st) == LET found == GetObject(st, environment, identifier.name) IN
      IF found.exists THEN Ret(found.obj, st) ELSE NewError(st, "Cannot resolve identifier")

evalLetStatement(letStatement, environment, st) == LET object == Eval(letStatement.e, environment, st) IN
      IF isError(object.st, object.r) THEN object
      ELSE Ret(0, DefineObject(object.st, environment, letStatement.name, object.r))

evalFunctionDefinitionStatement(funcStatement, environment, st) == LET object == Alloc(st, FunctionObject(funcStatement.params, funcStatement.body, environment, 0)) IN
      IF funcStatement.thisType # "" THEN Ret(0, DefineTypeMember(object.st, funcStatement.thisType, funcStatement.name, object.r))
      ELSE Ret(0, DefineObject(object.st, environment, funcStatement.name, object.r))

evalReturnStatement(returnStatement, environment, st) == LET object == Eval(returnStatement.e, environment, st) IN
      IF isError(object.st, object.r) THEN object ELSE Alloc(object.st, ReturnObject(object.r))

\* The statement loop with only the Error sentinel stopping it.
evalBlockStatementsPastReturn(statements, i, newEnvironment, st) == IF i > Len(statements) THEN Ret(0, st)
      ELSE LET object == Eval(statements[i], newEnvironment, st) IN
           IF isError(object.st, object.r) THEN object
           ELSE evalBlockStatementsPastReturn(statements, i + 1, newEnvironment, object.st)

\* The statement loop of evalBlockStatement, from statement i on.
evalBlockStatements(statements, i, newEnvironment, st) == IF i > Len(statements) THEN Ret(0, st)
      ELSE LET object == Eval(statements[i], newEnvironment, st) IN
           IF TypeOf(object.st, object.r) \in {"Error", "Return"} THEN object
           ELSE evalBlockStatements(statements, i + 1, newEnvironment, object.st)

evalBlockStatement(blockStatement, environment, st) == LET newEnvironment == ExtendEnvironment(st, environment) IN
      evalBlockStatements(blockStatement.stmts, 1, newEnvironment.env, newEnvironment.st)

evalIfStatement(ifStatement, environment, st) == LET condition == Eval(ifStatement.c, environment, st) IN
      IF isError(condition.st, condition.r) THEN condition
      ELSE LET extended == ExtendEnvironment(condition.st, environment)
               object == IF implicitBoolConversion(condition.st, condition.r) THEN Eval(ifStatement.s, extended.env, extended.st)
                         ELSE IF ifStatement.alt # NoNode THEN Eval(ifStatement.alt, extended.env, extended.st)
                         ELSE Ret(0, condition.st)
           IN IF TypeOf(object.st, object.r) \in {"Error", "Return"} THEN object ELSE Ret(0, object.st)

evalWhileStatement(whileStatement, environment, st) == LET condition == Eval(whileStatement.c, environment, st) IN
      IF isError(condition.st, condition.r) THEN condition
      ELSE IF Halted(condition.st) \/ ~implicitBoolConversion(condition.st, condition.r) THEN Ret(0, condition.st)
      ELSE LET extended == ExtendEnvironment(Tick(condition.st), environment)
               object == Eval(whileStatement.s, extended.env, extended.st)
           IN IF TypeOf(object.st, object.r) \in {"Error", "Return"} THEN object
              ELSE IF Halted(object.st) THEN Ret(0, object.st)
              ELSE evalWhileStatement(whileStatement, environment, object.st)

\* object.Value++ / object.Value--, in place.
Increment(cell, op) == IF cell.t = "Integer" THEN IntegerObject(Wrap(IF op = "++" THEN cell.v + 1 ELSE cell.v - 1))
      ELSE FloatAdd(cell, IF op = "++" THEN ToFloat(1) ELSE ToFloat(-1))

\* evalIncrementExpression with the post form returning the mutated object.
evalIncrementExpressionShared(incrementExpression, environment, st) == LET found == GetObject(st, environment, incrementExpression.name) IN
      IF ~found.exists THEN NewError(st, "Cannot resolve identifier")
      ELSE IF TypeOf(st, found.obj) \in {"Integer", "Float"}
      THEN Ret(found.obj, [st EXCEPT !.objs[found.obj] = Increment(st.objs[found.obj], incrementExpression.op)])
      ELSE NewError(st, "Cannot increment non-int")

evalIncrementExpression(incrementExpression, environment, st) == LET found == GetObject(st, environment, incrementExpression.name) IN
      IF ~found.exists THEN NewError(st, "Cannot resolve identifier")
      ELSE IF TypeOf(st, found.obj) \in {"Integer", "Float"}
      THEN LET oldValue == st.objs[found.obj]
               mutated == [st EXCEPT !.objs[found.obj] = Increment(oldValue, incrementExpression.op)]
           IN IF incrementExpression.pre THEN Ret(found.obj, mutated) ELSE Alloc(mutated, oldValue)
      ELSE NewError(st, "Cannot increment non-int")

\* Function.With: the same function with object bound as its receiver.
With(st, member, object) == Alloc(st, [st.objs[member] EXCEPT !.this = object])

\* object.Type() on a nil Object is a nil dereference.
evalMemberAccessExpression(memberAccessExpression, environment, st) == LET object == Eval(memberAccessExpression.e, environment, st) IN
      IF isError(object.st, object.r) THEN object
      ELSE IF object.r = 0 THEN Panic(object.st)
      ELSE LET member == GetTypeMember(object.st, TypeOf(object.st, object.r), memberAccessExpression.member) IN
           IF ~member.ok THEN NewError(object.st, "Member " \o memberAccessExpression.member \o " does not exist")
           ELSE IF TypeOf(object.st, member.obj) = "Function" THEN With(object.st, member.obj, object.r)
           ELSE Ret(member.obj, object.st)

\* What an event keeps of the runtime state.
Snapshot(st) == [objs |-> st.objs, envs |-> st.envs, members |-> st.members, calls |-> st.calls]

\* The record of one finished Eval call: the node, its nesting depth d and
\* function-call depth fd, its Environment, its result r, and the runtime
\* state when it began and when it returned.
Event(node, environment, st, object) == [node |-> node, d |-> st.d + 1, fd |-> st.fd, env |-> environment, r |-> object.r, before |-> Snapshot(st), after |-> Snapshot(object.st)]

\* Eval: the type switch, one level deeper, and the log of the result.
\* Nothing runs in a halted state, and a halted evaluation has no result.
Eval(node, environment, st) == IF st.halt # "" THEN Ret(0, st)
      ELSE LET deeper == [st EXCEPT !.d = @ + 1]
               object == CASE node.k = "ExpressionStatement" -> Eval(node.e, environment, deeper)
                          [] node.k = "StringLiteral" -> Alloc(deeper, StringObject(node.s))
                          [] node.k = "IntegerLiteral" -> Alloc(deeper, IntegerObject(node.v))
                          [] node.k = "FloatLiteral" -> Alloc(deeper, FloatObject(node.n, node.d))
                          [] node.k = "BooleanLiteral" -> Alloc(deeper, BooleanObject(node.b))
                          [] node.k = "NullLiteral" -> Alloc(deeper, NullObject)
                          [] node.k = "VoidLiteral" -> Ret(0, deeper)
                          [] node.k = "Identifier" -> evalIdentifierExpression(node, environment, deeper)
                          [] node.k = "InfixExpression" -> evalInfixExpression(node, environment, deeper)
                          [] node.k = "PrefixExpression" -> evalPrefixExpression(node, environment, deeper)
                          [] node.k = "CallExpression" -> evalCallExpression(node, environment, deeper)
                          [] node.k = "AssignmentExpression" -> evalAssignmentExpression(node, environment, deeper)
                          [] node.k = "LetStatement" -> evalLetStatement(node, environment, deeper)
                          [] node.k = "FunctionDefinitionStatement" -> evalFunctionDefinitionStatement(node, environment, deeper)
                          [] node.k = "ReturnStatement" -> evalReturnStatement(node, environment, deeper)
                          [] node.k = "BlockStatement" -> evalBlockStatement(node, environment, deeper)
                          [] node.k = "IfStatement" -> evalIfStatement(node, environment, deeper)
                          [] node.k = "WhileStatement" -> evalWhileStatement(node, environment, deeper)
                          [] node.k = "IncrementExpression" -> evalIncrementExpression(node, environment, deeper)
                          [] node.k = "MemberAccessExpression" -> evalMemberAccessExpression(node, environment, deeper)
                          [] node.k = "TypeDefinitionStatement" -> Ret(0, deeper)
                          [] OTHER -> NewError(deeper, "Unknown node")
           IN IF object.st.halt # "" THEN Ret(0, object.st)
              ELSE Ret(object.r, [object.st EXCEPT !.d = st.d, !.log = Append(@, Event(node, environment, st, object))])

(***************************************************************************)
(* The parser.  A token is its type and its literal; the parser state is   *)
(*   tokens    the token stream, ending in EOF                             *)
(*   position  the index of the current token                              *)
(*   errors    the diagnostics recorded, each the index of a token and a   *)
(*             message                                                     *)
(*   contexts  the Contexts, each a parent, the types of its names, the    *)
(*             names in the order they were defined, and a return type     *)
(* A Context is its index in contexts, 0 for none.  Every parse function   *)
(* begins on the first token of its construct and ends on its last.        *)
(***************************************************************************)
Token(type, literal) == [type |-> type, literal |-> literal]

\* Static types, by name; NoType is a nil Type.
IntegerType == "Integer"

StringType == "String"

BooleanType == "Boolean"

NullType == "Null"

VoidType == "Void"

NeverType == "Never"

FunctionType == "Function"

NoType == "nil"

\* The pair (statement, parser state) a parse function returns; NoNode is nil.
Parsed(statement, parser) == [statement |-> statement, parser |-> parser]

\* The parser over tokens, with the Context of the program.
NewParser(tokens) == [tokens |-> tokens, position |-> 1, errors |-> <<>>, contexts |-> <<[parent |-> 0, names |-> <<>>, defined |-> <<>>, returnType |-> NoType]>>]

current(parser) == parser.tokens[parser.position]

peek(parser) == parser.tokens[IF parser.position < Len(parser.tokens) THEN parser.position + 1 ELSE parser.position]

\* Moves to the next token; there is none after EOF.
consume(parser) == [parser EXCEPT !.position = IF @ < Len(parser.tokens) THEN @ + 1 ELSE @]

\* Records a diagnostic at a token.
error(parser, token, message) == [parser EXCEPT !.errors = Append(@, [token |-> token, message |-> message])]

\* Moves to the next token if it has the type asked for, and records a
\* diagnostic if it has not.
assertNext(parser, type) == IF peek(parser).type = type THEN [ok |-> TRUE, parser |-> consume(parser)]
      ELSE [ok |-> FALSE, parser |-> error(parser, parser.position + 1, "Unexpected token")]

\* A child scope of context.
ExtendContext(parser, context) == [context |-> Len(parser.contexts) + 1, parser |-> [parser EXCEPT !.contexts = Append(@, [parent |-> context, names |-> <<>>, defined |-> <<>>, returnType |-> parser.contexts[context].returnType])]]

\* A copy of context: the same parent, names and return type.
CloneContext(parser, context) == [context |-> Len(parser.contexts) + 1, parser |-> [parser EXCEPT !.contexts = Append(@, parser.contexts[context])]]

\* The type of name in this scope alone.
GetInThisScope(parser, context, name) == IF name \in DOMAIN parser.contexts[context].names THEN [type |-> parser.contexts[context].names[name], exists |-> TRUE] ELSE [type |-> NoType, exists |-> FALSE]

\* names[name] := type in this scope, with no redefinition check.
Define(parser, context, name, type) == [parser EXCEPT !.contexts[context].names = Bind(@, name, type), !.contexts[context].defined = Append(@, name)]

\* The type of name in the nearest scope of the chain that has it.
RECURSIVE GetType(_, _, _)
GetType(parser, context, name) == IF context = 0 THEN NeverType
      ELSE IF name \in DOMAIN parser.contexts[context].names THEN parser.contexts[context].names[name]
      ELSE GetType(parser, parser.contexts[context].parent, name)

\* target.IsAssignable(source): the bottom type is assignable to every type,
\* and otherwise the variants are the same.
IsAssignable(target, source) == source = NeverType \/ target = source

\* expression.Type(context)
TypeOfExpression(parser, context, expression) == CASE expression.k = "IntegerLiteral" -> IntegerType
      [] expression.k = "StringLiteral" -> StringType
      [] expression.k = "BooleanLiteral" -> BooleanType
      [] expression.k = "NullLiteral" -> NullType
      [] expression.k = "VoidLiteral" -> VoidType
      [] expression.k = "Identifier" -> GetType(parser, context, expression.name)
      [] OTHER -> NeverType

\* The integer a literal of one digit spells.
ParseInt(literal) == CHOOSE n \in 0..9 : NatToString(n) = literal

\* parseExpression(context, Lowest), for the expressions of one token: a
\* literal or an identifier.  The token streams of the model have such a
\* token wherever an expression is parsed.
parseExpression(parser, context) == CASE current(parser).type = "Int" -> [expression |-> IntegerLiteral(ParseInt(current(parser).literal)), parser |-> parser]
      [] current(parser).type = "String" -> [expression |-> StringLiteral(current(parser).literal), parser |-> parser]
      [] current(parser).type = "True" -> [expression |-> BooleanLiteral(TRUE), parser |-> parser]
      [] current(parser).type = "False" -> [expression |-> BooleanLiteral(FALSE), parser |-> parser]
      [] current(parser).type = "Null" -> [expression |-> NullLiteral, parser |-> parser]
      [] current(parser).type = "Ident" -> [expression |-> Identifier(current(parser).literal), parser |-> parser]
      [] OTHER -> [expression |-> NoNode, parser |-> error(parser, parser.position, "Unexpected token")]

\* parseType: the next token names the type; a name that is no type gives the
\* Never type, and a token that is no name gives nil and a diagnostic.
parseType(parser) == IF peek(parser).type # "Type" THEN [type |-> NoType, parser |-> error(parser, parser.position + 1, "Unexpected token")]
      ELSE [type |-> IF peek(parser).literal \in {IntegerType, StringType, BooleanType, VoidType} THEN peek(parser).literal ELSE NeverType, parser |-> consume(parser)]

\* The parameters after "(": name and type, separated by commas, up to ")".
RECURSIVE parseParameters(_, _)
parseParameters(parser, parameters) == IF peek(parser).type = "Ident"
      THEN LET named == consume(parser)
               type == parseType(named)
           IN IF type.type = NoType THEN [ok |-> FALSE, parameters |-> <<>>, parser |-> type.parser]
              ELSE parseParameters(IF peek(type.parser).type = "Comma" THEN consume(type.parser) ELSE type.parser, Append(parameters, [name |-> current(named).literal, type |-> type.type]))
      ELSE LET closed == assertNext(parser, "RParen") IN [ok |-> closed.ok, parameters |-> parameters, parser |-> closed.parser]

parseParameterList(parser) == parseParameters(parser, <<>>)

\* The statements the reachability rule looks at.
ReturnRelevant == {"ReturnStatement", "IfStatement", "WhileStatement", "BlockStatement"}

\* Whether statement guarantees a return: a return does, an if whose two
\* branches do, and a block whose last return-relevant statement does; a
\* while never.
RECURSIVE doesReturn(_, _)
doesReturn(context, statement) == CASE statement.k = "ReturnStatement" -> TRUE
      [] statement.k = "IfStatement" -> doesReturn(context, statement.s) /\ doesReturn(context, statement.alt)
      [] statement.k = "BlockStatement" -> LET relevant == {i \in 1..Len(statement.stmts) : statement.stmts[i].k \in ReturnRelevant} IN
            relevant # {} /\ doesReturn(context, statement.stmts[CHOOSE i \in relevant : \A j \in relevant : j <= i])
      [] OTHER -> FALSE

(***************************************************************************)
(* The statement parser.                                                   *)
(***************************************************************************)
RECURSIVE parseStatement(_, _)
RECURSIVE parseBlockStatements(_, _, _)

parseExpressionStatement(parser, context) == LET expression == parseExpression(parser, context)
          ended == assertNext(expression.parser, "Semi")
      IN IF ~ended.ok THEN Parsed(NoNode, ended.parser) ELSE Parsed(ExpressionStatement(expression.expression), ended.parser)

parseReturnStatement(parser, context) == LET consumed == consume(parser) IN
      IF current(consumed).type = "Semi" THEN Parsed(ReturnStatement(VoidLiteral), consumed)
      ELSE LET expression == parseExpression(consumed, context)
               ended == assertNext(expression.parser, "Semi")
           IN IF ~ended.ok THEN Parsed(NoNode, ended.parser) ELSE Parsed(ReturnStatement(expression.expression), ended.parser)

\* The loop of parseBlockStatement: a semicolon is skipped; a statement is
\* parsed in the Context the block was given, kept unless nil, and one more
\* token is consumed.
parseBlockStatements(parser, context, statements) == IF current(parser).type = "EOF" \/ current(parser).type = "RBrace" THEN [statements |-> statements, parser |-> parser]
      ELSE IF current(parser).type = "Semi" THEN parseBlockStatements(consume(parser), context, statements)
      ELSE LET statement == parseStatement(parser, context) IN
           parseBlockStatements(consume(statement.parser), context, IF statement.statement # NoNode THEN Append(statements, statement.statement) ELSE statements)

\* The block keeps its brace tokens: lBrace, and rBrace or 0 for nil.
parseBlockStatement(parser, context) == LET openingBrace == parser.position
          looped == parseBlockStatements(consume(parser), context, <<>>)
      IN IF current(looped.parser).type # "RBrace"
         THEN Parsed([k |-> "BlockStatement", stmts |-> looped.statements, lBrace |-> openingBrace, rBrace |-> 0], error(looped.parser, openingBrace, "Unclosed block"))
         ELSE Parsed([k |-> "BlockStatement", stmts |-> looped.statements, lBrace |-> openingBrace, rBrace |-> looped.parser.position], looped.parser)

\* parseLetStatement from the value on: the value and the closing semicolon,
\* the redefinition check, the assignability check, and context.Define.
\* type is the annotated type, NoType without an annotation.
parseLetValue(parser, context, identToken, name, type) == LET given == peek(parser).type # "Semi"
          assigned == IF given THEN assertNext(parser, IF type # NoType THEN "Assign" ELSE "Define") ELSE [ok |-> TRUE, parser |-> parser]
          value == IF given THEN parseExpression(consume(assigned.parser), context) ELSE [expression |-> NullLiteral, parser |-> parser]
          ended == assertNext(value.parser, "Semi")
          inferredType == TypeOfExpression(ended.parser, context, value.expression)
      IN IF ~assigned.ok THEN Parsed(NoNode, assigned.parser)
         ELSE IF ~ended.ok THEN Parsed(NoNode, ended.parser)
         ELSE IF GetInThisScope(ended.parser, context, name).exists THEN Parsed(NoNode, error(ended.parser, identToken, "Cannot redefine '" \o name \o "'"))
         ELSE IF type = NoType THEN Parsed(LetStatement(name, value.expression), Define(ended.parser, context, name, inferredType))
         ELSE IF ~IsAssignable(type, inferredType) THEN Parsed(NoNode, IF type # NeverType THEN error(ended.parser, IF given THEN ended.parser.position - 1 ELSE ended.parser.position, "Type '" \o inferredType \o "' is not assignable to '" \o type \o "'") ELSE ended.parser)
         ELSE Parsed(LetStatement(name, value.expression), Define(ended.parser, context, name, type))

\* parseLetStatement up to the value: the name, and the type after a colon.
parseLetStatement(parser, context) == LET named == assertNext(parser, "Ident")
          type == parseType(consume(named.parser))
      IN IF ~named.ok THEN Parsed(NoNode, named.parser)
         ELSE IF peek(named.parser).type # "Colon" THEN parseLetValue(named.parser, context, named.parser.position, current(named.parser).literal, NoType)
         ELSE IF type.type = NoType THEN Parsed(NoNode, type.parser)
         ELSE parseLetValue(IF type.type = NeverType THEN error(type.parser, type.parser.position, "Unknown type") ELSE type.parser, context, named.parser.position, current(named.parser).literal, type.type)

\* functionContext.Define(parameter.Name.Value, parameter.Type), for each.
RECURSIVE DefineParameterTypes(_, _, _, _)
DefineParameterTypes(parser, functionContext, parameters, i) == IF i > Len(parameters) THEN parser
      ELSE DefineParameterTypes(Define(parser, functionContext, parameters[i].name, parameters[i].type), functionContext, parameters, i + 1)

\* The return check with the void return type not exempted.
requireReturnOfVoid(parser, functionContext, statement) == LET returnContext == CloneContext(parser, functionContext) IN
      IF ~doesReturn(returnContext.context, statement.body)
      THEN error(returnContext.parser, IF statement.body.rBrace # 0 THEN statement.body.rBrace ELSE statement.body.lBrace, "Missing return statement")
      ELSE returnContext.parser

\* The end of parseFunctionDefinitionStatement: unless the return type is
\* void, a body that does not return is a diagnostic at its closing brace.
requireReturn(parser, functionContext, statement) == IF statement.returnType # VoidType
      THEN LET returnContext == CloneContext(parser, functionContext) IN
           IF ~doesReturn(returnContext.context, statement.body)
           THEN error(returnContext.parser, IF statement.body.rBrace # 0 THEN statement.body.rBrace ELSE statement.body.lBrace, "Missing return statement")
           ELSE returnContext.parser
      ELSE parser

\* parseFunctionDefinitionStatement from the Contexts on: the function's
\* Context with its return type and parameters, the function's type defined
\* in the enclosing Context, the body, and the return check.
parseFunctionBody(parser, context, name, parameters, returnType) == LET functionContext == ExtendContext(parser, context)
          defined == Define(DefineParameterTypes([functionContext.parser EXCEPT !.contexts[functionContext.context].returnType = returnType], functionContext.context, parameters, 1), context, name, FunctionType)
          bodyContext == CloneContext(defined, functionContext.context)
          body == parseBlockStatement(bodyContext.parser, bodyContext.context)
          statement == [k |-> "FunctionDefinitionStatement", name |-> name, params |-> [i \in 1..Len(parameters) |-> parameters[i].name], body |-> body.statement, thisType |-> "", returnType |-> returnType]
      IN Parsed(statement, requireReturn(body.parser, functionContext.context, statement))

\* parseFunctionDefinitionStatement up to the body: the name, the parameters,
\* and the return type, void when the body follows at once.
parseFunctionDefinitionStatement(parser, context) == LET named == assertNext(parser, "Ident")
          opened == assertNext(named.parser, "LParen")
          parameters == parseParameterList(opened.parser)
          returnType == parseType(parameters.parser)
          braced == assertNext(returnType.parser, "LBrace")
      IN IF ~named.ok THEN Parsed(NoNode, named.parser)
         ELSE IF ~opened.ok THEN Parsed(NoNode, opened.parser)
         ELSE IF ~parameters.ok THEN Parsed(NoNode, parameters.parser)
         ELSE IF peek(parameters.parser).type = "LBrace" THEN parseFunctionBody(consume(parameters.parser), context, current(named.parser).literal, parameters.parameters, VoidType)
         ELSE IF returnType.type = NoType THEN Parsed(NoNode, returnType.parser)
         ELSE IF ~braced.ok THEN Parsed(NoNode, braced.parser)
         ELSE parseFunctionBody(braced.parser, context, current(named.parser).literal, parameters.parameters, returnType.type)

parseIfStatement(parser, context) == LET condition == parseExpression(consume(parser), context)
          extended == ExtendContext(consume(condition.parser), context)
          statement == parseStatement(extended.parser, extended.context)
          alternativeContext == ExtendContext(consume(consume(statement.parser)), context)
          alternative == parseStatement(alternativeContext.parser, alternativeContext.context)
      IN IF peek(statement.parser).type = "Else" THEN Parsed(IfStatement(condition.expression, statement.statement, alternative.statement), alternative.parser)
         ELSE Parsed(IfStatement(condition.expression, statement.statement, NoNode), statement.parser)

parseWhileStatement(parser, context) == LET condition == parseExpression(consume(parser), context)
          extended == ExtendContext(consume(condition.parser), context)
          statement == parseStatement(extended.parser, extended.context)
      IN Parsed(WhileStatement(condition.expression, statement.statement), statement.parser)

parseStatement(parser, context) == CASE current(parser).type = "Let" -> parseLetStatement(parser, context)
      [] current(parser).type = "Return" -> parseReturnStatement(parser, context)
      [] current(parser).type = "Func" -> parseFunctionDefinitionStatement(parser, context)
      [] current(parser).type = "LBrace" -> parseBlockStatement(parser, context)
      [] current(parser).type = "If" -> parseIfStatement(parser, context)
      [] current(parser).type = "While" -> parseWhileStatement(parser, context)
      [] OTHER -> parseExpressionStatement(parser, context)

(***************************************************************************)
(* The programs evaluated: bounded families of syntax trees.               *)
(***************************************************************************)
MaxInteger == 2^(IntBits - 1) - 1

\* The expression the parser builds for the integer a: literals are not
\* negative, and the least Integer has no literal of its own.
IntegerExpression(a) == IF a >= 0 THEN IntegerLiteral(a)
      ELSE IF a >= -MaxInteger THEN PrefixExpression("-", IntegerLiteral(-a))
      ELSE InfixExpression("-", PrefixExpression("-", IntegerLiteral(MaxInteger)), IntegerLiteral(1))

Literals == {IntegerLiteral(0), IntegerLiteral(1), IntegerLiteral(5), FloatLiteral(5, 2), FloatLiteral(0, 1), StringLiteral(""), StringLiteral("a"), BooleanLiteral(TRUE), BooleanLiteral(FALSE), NullLiteral}

Operators == {"==", "!=", "<", ">", "<=", ">=", "+", "-", "/", "*", "&&", "||", "%"}

\* One expression statement: an operator on two literals, the expressions of
\* TestEvaluator, and every Integer divided by 0, 1, 2 and -1.
ExpressionPrograms == {<<ExpressionStatement(InfixExpression(op, l, r))>> : op \in Operators, l \in Literals, r \in Literals}
      \cup {<<ExpressionStatement(InfixExpression("+", StringLiteral("a"), StringLiteral("b")))>>,
            <<ExpressionStatement(PrefixExpression("!", PrefixExpression("!", IntegerLiteral(0))))>>,
            <<ExpressionStatement(InfixExpression("-", InfixExpression("+", IntegerLiteral(1), InfixExpression("*", IntegerLiteral(2), IntegerLiteral(3))), IntegerLiteral(4)))>>}
      \cup {<<ExpressionStatement(InfixExpression("/", IntegerExpression(a), IntegerExpression(b)))>> : a \in (-MaxInteger - 1)..MaxInteger, b \in {0, 1, 2, -1}}

\* The statements a program starts with: what x and y are bound to.
Declarations == {<<>>,
            <<LetStatement("x", IntegerLiteral(5))>>,
            <<LetStatement("x", IntegerLiteral(MaxInteger))>>,
            <<LetStatement("x", IntegerExpression(-MaxInteger - 1))>>,
            <<LetStatement("x", StringLiteral("a"))>>,
            <<LetStatement("x", FloatLiteral(5, 2))>>,
            <<LetStatement("y", IntegerLiteral(1))>>,
            <<LetStatement("x", IntegerLiteral(0)), LetStatement("y", Identifier("x"))>>,
            <<LetStatement("x", IntegerLiteral(1)), LetStatement("y", IncrementExpression("x", "++", FALSE))>>}

\* Expressions with an effect, an error or a plain value; z is never bound.
Effects == {IncrementExpression(n, op, pre) : n \in {"x", "y"}, op \in {"++", "--"}, pre \in BOOLEAN}
      \cup {AssignmentExpression(n, e) : n \in {"x", "z"}, e \in {IntegerLiteral(2), Identifier("y"), Identifier("z"), IncrementExpression("x", "++", FALSE)}}
      \cup {Identifier("x"), Identifier("z"), IntegerLiteral(0), IntegerLiteral(1), StringLiteral(""), NullLiteral, InfixExpression("/", IntegerLiteral(1), IntegerLiteral(0))}

\* The statements one effect is put in: bare, in nested and shadowing
\* scopes, under if and while, and as the value of a let.
Wrapped(e) == {ExpressionStatement(e),
            BlockStatement(<<ExpressionStatement(e)>>),
            BlockStatement(<<LetStatement("x", IntegerLiteral(7)), BlockStatement(<<ExpressionStatement(e)>>)>>),
            IfStatement(BooleanLiteral(TRUE), ExpressionStatement(e), NoNode),
            IfStatement(Identifier("x"), BlockStatement(<<ExpressionStatement(e)>>), BlockStatement(<<ExpressionStatement(AssignmentExpression("x", IntegerLiteral(1)))>>)),
            WhileStatement(InfixExpression("<", Identifier("x"), IntegerLiteral(7)), ExpressionStatement(e)),
            LetStatement("y", e)}

\* What may follow: a lookup or an increment of x at program level.
Followers == {<<>>, <<ExpressionStatement(Identifier("x"))>>, <<ExpressionStatement(IncrementExpression("x", "++", FALSE))>>, <<ExpressionStatement(Identifier("x")), ExpressionStatement(AssignmentExpression("z", IntegerLiteral(2)))>>}

EffectPrograms == {d \o <<s>> \o f : d \in Declarations, s \in UNION {Wrapped(e) : e \in Effects}, f \in Followers}

LogicalPrograms == {d \o <<ExpressionStatement(InfixExpression(op, l, r))>> : d \in {<<>>, <<LetStatement("x", IntegerLiteral(5))>>, <<LetStatement("x", IntegerLiteral(0)), LetStatement("y", Identifier("x"))>>}, op \in {"&&", "||"}, l \in Effects, r \in Effects}

\* Bodies of a function f(a): return at several depths of block, if and while.
FunctionBodies == {BlockStatement(<<>>),
            BlockStatement(<<ReturnStatement(Identifier("a"))>>),
            BlockStatement(<<IfStatement(Identifier("a"), BlockStatement(<<ReturnStatement(IntegerLiteral(1))>>), NoNode), ExpressionStatement(AssignmentExpression("x", IntegerLiteral(2))), ReturnStatement(IntegerLiteral(3))>>),
            BlockStatement(<<WhileStatement(Identifier("a"), BlockStatement(<<ReturnStatement(Identifier("x")), ExpressionStatement(IncrementExpression("x", "++", TRUE))>>)), ReturnStatement(IntegerLiteral(0))>>),
            BlockStatement(<<BlockStatement(<<BlockStatement(<<ReturnStatement(VoidLiteral)>>)>>), ExpressionStatement(IncrementExpression("x", "++", TRUE))>>),
            BlockStatement(<<ExpressionStatement(IncrementExpression("x", "++", FALSE)), IfStatement(Identifier("a"), ReturnStatement(Identifier("z")), ReturnStatement(InfixExpression("+", Identifier("a"), IntegerLiteral(1))))>>),
            BlockStatement(<<WhileStatement(BooleanLiteral(TRUE), IfStatement(Identifier("a"), ReturnStatement(IntegerLiteral(1)), ExpressionStatement(AssignmentExpression("a", IntegerLiteral(1)))))>>)}

Arguments == {IntegerLiteral(0), IntegerLiteral(1), Identifier("x"), Identifier("z"), IncrementExpression("x", "++", FALSE), InfixExpression("/", IntegerLiteral(1), IntegerLiteral(0))}

\* The statements a call is put in.
Calling(call) == {ExpressionStatement(call), LetStatement("y", call)}

\* let x = 5; func f(a) {...}; then a call of f, of a non-function or of an
\* unbound name; and a function g(a, b) called with two arguments.
CallPrograms == {<<LetStatement("x", IntegerLiteral(5)), FunctionDefinitionStatement("f", <<"a">>, body, ""), s>> \o f : body \in FunctionBodies, s \in UNION {Calling(CallExpression(Identifier(c), <<a>>)) : c \in {"f", "x", "z"}, a \in Arguments}, f \in {<<>>, <<ExpressionStatement(Identifier("x"))>>}}
      \cup {<<LetStatement("x", IntegerLiteral(5)), FunctionDefinitionStatement("g", <<"a", "b">>, body, ""), ExpressionStatement(CallExpression(Identifier("g"), <<a, b>>))>> : body \in {BlockStatement(<<>>), BlockStatement(<<ReturnStatement(Identifier("b"))>>)}, a \in Arguments, b \in Arguments}

\* A member function m of the Integer type, reached by member access.
MemberPrograms == {<<TypeDefinitionStatement("T"), FunctionDefinitionStatement("m", <<"self">>, BlockStatement(<<ReturnStatement(Identifier("self"))>>), "Integer"), ExpressionStatement(e)>> : e \in {CallExpression(MemberAccessExpression(IntegerLiteral(5), "m"), <<>>), MemberAccessExpression(StringLiteral("a"), "m"), MemberAccessExpression(Identifier("z"), "m"), MemberAccessExpression(IntegerLiteral(5), "n")}}

Programs == ExpressionPrograms \cup EffectPrograms \cup LogicalPrograms \cup CallPrograms \cup MemberPrograms

(***************************************************************************)
(* The token streams parsed: bounded families of source texts, as the      *)
(* scanner hands them over.                                                *)
(***************************************************************************)
\* A token with no literal of its own.
Mark(type) == Token(type, "")

\* let name := value;
LetTokens(name, value) == <<Mark("Let"), Token("Ident", name), Mark("Define"), value, Mark("Semi")>>

\* let name: type = value;
TypedLetTokens(name, type, value) == <<Mark("Let"), Token("Ident", name), Mark("Colon"), Token("Type", type), Mark("Assign"), value, Mark("Semi")>>

\* func name(parameters) returnType body, returnType empty for void.
FuncTokens(name, parameters, returnType, body) == <<Mark("Func"), Token("Ident", name), Mark("LParen")>> \o parameters \o <<Mark("RParen")>> \o returnType \o body

BlockTokens(statements) == <<Mark("LBrace")>> \o statements \o <<Mark("RBrace")>>

ReturnTokens(value) == <<Mark("Return"), value, Mark("Semi")>>

IfTokens(condition, statement) == <<Mark("If"), condition>> \o statement

IfElseTokens(condition, statement, alternative) == <<Mark("If"), condition>> \o statement \o <<Mark("Else")>> \o alternative

WhileTokens(condition, statement) == <<Mark("While"), condition>> \o statement

\* Declarations of x and f by let and by func.
DeclarationTokens == {LetTokens("x", Token("Int", "1")),
            LetTokens("x", Token("String", "a")),
            TypedLetTokens("x", IntegerType, Token("Int", "1")),
            TypedLetTokens("x", StringType, Token("Int", "1")),
            TypedLetTokens("f", "T", Token("Int", "1")),
            <<Mark("Let"), Token("Ident", "f"), Mark("Semi")>>,
            LetTokens("f", Token("Int", "1")),
            FuncTokens("f", <<>>, <<>>, BlockTokens(<<>>)),
            FuncTokens("x", <<>>, <<>>, BlockTokens(<<>>)),
            FuncTokens("f", <<Token("Ident", "a"), Token("Type", IntegerType)>>, <<Token("Type", IntegerType)>>, BlockTokens(ReturnTokens(Token("Ident", "a"))))}

\* Two or three declarations in the scope of the program.
DeclarationStreams == {a \o b : a \in DeclarationTokens, b \in DeclarationTokens}
      \cup {a \o b \o a : a \in DeclarationTokens, b \in DeclarationTokens}

\* What may follow let x := 1; and declare x again, in a scope of its own or
\* in the scope of the program.
ShadowingTokens == {BlockTokens(LetTokens("x", Token("Int", "2"))),
            BlockTokens(BlockTokens(LetTokens("x", Token("Int", "2")))),
            BlockTokens(LetTokens("y", Token("Int", "2")) \o LetTokens("x", Token("String", "a"))),
            IfTokens(Mark("True"), LetTokens("x", Token("Int", "2"))),
            IfTokens(Mark("True"), BlockTokens(LetTokens("x", Token("Int", "2")))),
            IfElseTokens(Mark("True"), LetTokens("x", Token("Int", "2")), LetTokens("x", Token("Int", "3"))),
            WhileTokens(Mark("True"), LetTokens("x", Token("Int", "2"))),
            FuncTokens("g", <<>>, <<>>, BlockTokens(LetTokens("x", Token("Int", "2")))),
            FuncTokens("g", <<Token("Ident", "x"), Token("Type", IntegerType)>>, <<>>, BlockTokens(LetTokens("x", Token("Int", "2")))),
            LetTokens("x", Token("Int", "2")),
            <<Mark("Semi")>> \o LetTokens("y", Token("Ident", "x")),
            BlockTokens(<<Mark("Semi")>>) \o <<Mark("Semi")>>,
            FuncTokens("g", <<Token("Ident", "a"), Token("Type", IntegerType), Mark("Comma"), Token("Ident", "b"), Token("Type", StringType)>>, <<>>, BlockTokens(LetTokens("x", Token("Ident", "b")))),
            <<Mark("LBrace")>> \o LetTokens("x", Token("Int", "2"))}

ShadowingStreams == {LetTokens("x", Token("Int", "1")) \o s \o f : s \in ShadowingTokens, f \in {<<>>, <<Token("Ident", "x"), Mark("Semi")>>}}

\* Bodies of a function f(a): return in blocks, ifs and whiles.
BodyTokens == {BlockTokens(<<>>),
            BlockTokens(ReturnTokens(Token("Int", "1"))),
            BlockTokens(<<Mark("Return"), Mark("Semi")>>),
            BlockTokens(LetTokens("y", Token("Int", "1")) \o ReturnTokens(Token("Ident", "y"))),
            BlockTokens(<<Token("Ident", "a"), Mark("Semi")>>),
            BlockTokens(IfTokens(Token("Ident", "a"), ReturnTokens(Token("Int", "1")))),
            BlockTokens(IfTokens(Token("Ident", "a"), BlockTokens(ReturnTokens(Token("Int", "1"))))),
            BlockTokens(IfElseTokens(Token("Ident", "a"), ReturnTokens(Token("Int", "1")), ReturnTokens(Token("Int", "2")))),
            BlockTokens(IfElseTokens(Token("Ident", "a"), BlockTokens(ReturnTokens(Token("Int", "1"))), BlockTokens(ReturnTokens(Token("Int", "2"))))),
            BlockTokens(IfElseTokens(Token("Ident", "a"), BlockTokens(ReturnTokens(Token("Int", "1"))), BlockTokens(<<Token("Ident", "a"), Mark("Semi")>>))),
            BlockTokens(IfElseTokens(Token("Ident", "a"), BlockTokens(<<>>), ReturnTokens(Token("Int", "2")))),
            BlockTokens(IfElseTokens(Token("Ident", "a"), IfElseTokens(Token("Ident", "a"), ReturnTokens(Token("Int", "1")), ReturnTokens(Token("Int", "2"))), ReturnTokens(Token("Int", "3")))),
            BlockTokens(IfElseTokens(Token("Ident", "a"), IfTokens(Token("Ident", "a"), ReturnTokens(Token("Int", "1"))), ReturnTokens(Token("Int", "3")))),
            BlockTokens(WhileTokens(Token("Ident", "a"), ReturnTokens(Token("Int", "1")))),
            BlockTokens(WhileTokens(Token("Ident", "a"), BlockTokens(ReturnTokens(Token("Int", "1"))))),
            BlockTokens(WhileTokens(Token("Ident", "a"), BlockTokens(<<>>)) \o ReturnTokens(Token("Int", "1"))),
            BlockTokens(BlockTokens(ReturnTokens(Token("Int", "1")))),
            BlockTokens(BlockTokens(<<>>)),
            BlockTokens(ReturnTokens(Token("Int", "1")) \o <<Token("Ident", "a"), Mark("Semi")>>)}

\* The return types written after the parameters: none (void), and a type.
ReturnTypeTokens == {<<>>, <<Token("Type", IntegerType)>>, <<Token("Type", VoidType)>>, <<Token("Type", BooleanType)>>}

FunctionStreams == {FuncTokens("f", <<Token("Ident", "a"), Token("Type", BooleanType)>>, r, b) \o f : r \in ReturnTypeTokens, b \in BodyTokens, f \in {<<>>, FuncTokens("g", <<>>, <<Token("Type", IntegerType)>>, BlockTokens(<<>>))}}

TokenStreams == {s \o <<Mark("EOF")>> : s \in DeclarationStreams \cup ShadowingStreams \cup FunctionStreams}

\* What stands in a block: statements that are kept, statements that come out
\* nil (a let with no name, a let of a name already defined, a type that does
\* not fit, a missing semicolon, a func with no name), semicolons, and nested
\* blocks, closed and not.
BlockItems == {<<>>,
            LetTokens("x", Token("Int", "1")),
            LetTokens("x", Token("Int", "2")),
            <<Mark("Let"), Token("Int", "1"), Mark("Semi")>>,
            TypedLetTokens("y", StringType, Token("Int", "1")),
            <<Token("Ident", "x"), Mark("Semi")>>,
            <<Token("Ident", "x")>>,
            <<Mark("Semi")>>,
            ReturnTokens(Token("Int", "1")),
            BlockTokens(<<>>),
            <<Mark("LBrace"), Token("Ident", "x"), Mark("Semi")>>,
            IfTokens(Token("Ident", "a"), <<Token("Ident", "x"), Mark("Semi")>>),
            WhileTokens(Token("Ident", "a"), BlockTokens(<<>>)),
            FuncTokens("f", <<>>, <<>>, BlockTokens(<<>>)),
            <<Mark("Func")>>}

\* How a block ends: closed, not closed, and closed with tokens after it.
BlockEnds == {<<Mark("RBrace")>>, <<>>, <<Mark("RBrace"), Token("Ident", "x"), Mark("Semi")>>, <<Mark("RBrace"), Mark("RBrace")>>}

\* A block of two items, from its opening brace to EOF.
BlockStreams == {<<Mark("LBrace")>> \o a \o b \o c \o <<Mark("EOF")>> : a \in BlockItems, b \in BlockItems, c \in BlockEnds}

(***************************************************************************)
(* Spec: Eval(program, environment) on the Environment NewEnvironment()    *)
(* returns, one statement of evalProgram's loop per step.                  *)
(*   program         program.Statements                                    *)
(*   pc              0 before evalProgram is entered, then one more than   *)
(*                   the number of statements evaluated                    *)
(*   environment     the Environment Eval was given                        *)
(*   newEnvironment  evalProgram's child Environment                       *)
(*   st              the runtime state                                     *)
(*   prev            the runtime state before the last step                *)
(*   value           the result of the last statement evaluated            *)
(*   status          "ready", "running", then "returned" (Eval returned    *)
(*                   result), "panic" (the Go runtime panicked) or         *)
(*                   "diverge" (cut off after MaxSteps)                    *)
(*   result          what Eval returned                                    *)
(* ParseSpec: ParseProgram over a token stream, one statement of its loop  *)
(* per step.                                                               *)
(*   parser          the parser state                                      *)
(*   context         the Context ParseProgram was given                    *)
(*   statements      the statements of the Program so far                  *)
(*   parsing         "running", then "done"; "off" under Spec              *)
(* BlockSpec: parseBlockStatement over a token stream whose first token is *)
(* an opening brace, one iteration of its loop per step.                   *)
(*   statements      the statements of the block so far                    *)
(*   openingBrace    the token consumed first, 0 before                    *)
(*   rBraceToken     the closing brace of the BlockStatement returned, 0   *)
(*                   for nil                                               *)
(*   parsing         "block" on entry, "loop", then "returned"             *)
(***************************************************************************)
VARIABLES program, pc, environment, newEnvironment, st, prev, value, status, result, parser, context, statements, parsing, openingBrace, rBraceToken

vars == <<program, pc, environment, newEnvironment, st, prev, value, status, result, parser, context, statements, parsing, openingBrace, rBraceToken>>

evaluation == <<program, pc, environment, newEnvironment, st, prev, value, status, result>>

parse == <<parser, context, statements, parsing, openingBrace, rBraceToken>>

Init == /\ program \in Programs
      /\ pc = 0
      /\ environment = 1
      /\ newEnvironment = 0
      /\ st = NewEnvironment
      /\ prev = NewEnvironment
      /\ value = 0
      /\ status = "ready"
      /\ result = 0
      /\ parser = NewParser(<<Mark("EOF")>>)
      /\ context = 1
      /\ statements = <<>>
      /\ parsing = "off"
      /\ openingBrace = 0
      /\ rBraceToken = 0

\* The event of the Program node itself, logged as evalProgram returns.
ProgramReturned(s, r) == [s EXCEPT !.d = 0, !.log = Append(@, [node |-> [k |-> "Program"], d |-> 1, fd |-> 0, env |-> environment, r |-> r, before |-> Snapshot(NewEnvironment), after |-> Snapshot(s)])]

\* newEnvironment := ExtendEnvironment(environment, program.Context)
evalProgramEnter == /\ status = "ready"
      /\ LET extended == ExtendEnvironment([st EXCEPT !.d = 1], environment) IN
           /\ st' = extended.st
           /\ newEnvironment' = extended.env
      /\ prev' = st
      /\ pc' = 1
      /\ status' = "running"
      /\ UNCHANGED <<program, environment, value, result>>
      /\ UNCHANGED parse

\* One iteration of the loop whose result is no ErrorObject.
evalProgramStatement == /\ status = "running"
      /\ pc <= Len(program)
      /\ LET object == Eval(program[pc], newEnvironment, st) IN
           /\ ~Halted(object.st)
           /\ ~isError(object.st, object.r)
           /\ st' = object.st
           /\ value' = object.r
      /\ prev' = st
      /\ pc' = pc + 1
      /\ UNCHANGED <<program, environment, newEnvironment, status, result>>
      /\ UNCHANGED parse

\* One iteration whose result is an ErrorObject: return result.
evalProgramError == /\ status = "running"
      /\ pc <= Len(program)
      /\ LET object == Eval(program[pc], newEnvironment, st) IN
           /\ ~Halted(object.st)
           /\ isError(object.st, object.r)
           /\ st' = ProgramReturned(object.st, object.r)
           /\ value' = object.r
           /\ result' = object.r
      /\ prev' = st
      /\ pc' = pc + 1
      /\ status' = "returned"
      /\ UNCHANGED <<program, environment, newEnvironment>>
      /\ UNCHANGED parse

\* One iteration that never returns: the Go runtime panics, or the
\* evaluation is cut off after MaxSteps.
evalProgramHalt == /\ status = "running"
      /\ pc <= Len(program)
      /\ LET object == Eval(program[pc], newEnvironment, st) IN
           /\ Halted(object.st)
           /\ st' = object.st
           /\ status' = object.st.halt
      /\ prev' = st
      /\ pc' = pc + 1
      /\ UNCHANGED <<program, environment, newEnvironment, value, result>>
      /\ UNCHANGED parse

\* After the loop: return nil.
evalProgramReturn == /\ status = "running"
      /\ pc > Len(program)
      /\ st' = ProgramReturned(st, 0)
      /\ prev' = st
      /\ result' = 0
      /\ status' = "returned"
      /\ UNCHANGED <<program, pc, environment, newEnvironment, value>>
      /\ UNCHANGED parse

Next == \/ evalProgramEnter
      \/ evalProgramStatement
      \/ evalProgramError
      \/ evalProgramHalt
      \/ evalProgramReturn

Spec == Init /\ [][Next]_vars

ParseInit == /\ parser \in {NewParser(tokens) : tokens \in TokenStreams}
      /\ context = 1
      /\ statements = <<>>
      /\ parsing = "running"
      /\ openingBrace = 0
      /\ rBraceToken = 0
      /\ program = <<>>
      /\ pc = 0
      /\ environment = 1
      /\ newEnvironment = 0
      /\ st = NewEnvironment
      /\ prev = NewEnvironment
      /\ value = 0
      /\ status = "off"
      /\ result = 0

\* A semicolon where a statement begins is skipped.
parseProgramSemi == /\ parsing = "running"
      /\ current(parser).type = "Semi"
      /\ parser' = consume(parser)
      /\ UNCHANGED <<context, statements, parsing, openingBrace, rBraceToken>>
      /\ UNCHANGED evaluation

\* One iteration of the loop whose statement is kept.
parseProgramStatement == /\ parsing = "running"
      /\ current(parser).type \notin {"EOF", "Semi"}
      /\ LET statement == parseStatement(parser, context) IN
           /\ statement.statement # NoNode
           /\ statements' = Append(statements, statement.statement)
           /\ parser' = consume(statement.parser)
      /\ UNCHANGED <<context, parsing, openingBrace, rBraceToken>>
      /\ UNCHANGED evaluation

\* One iteration whose statement is nil, and is discarded.
parseProgramDiscard == /\ parsing = "running"
      /\ current(parser).type \notin {"EOF", "Semi"}
      /\ LET statement == parseStatement(parser, context) IN
           /\ statement.statement = NoNode
           /\ parser' = consume(statement.parser)
      /\ UNCHANGED <<context, statements, parsing, openingBrace, rBraceToken>>
      /\ UNCHANGED evaluation

\* At EOF: return the Program.
parseProgramReturn == /\ parsing = "running"
      /\ current(parser).type = "EOF"
      /\ parsing' = "done"
      /\ UNCHANGED <<parser, context, statements, openingBrace, rBraceToken>>
      /\ UNCHANGED evaluation

ParseNext == \/ parseProgramSemi
      \/ parseProgramStatement
      \/ parseProgramDiscard
      \/ parseProgramReturn

ParseSpec == ParseInit /\ [][ParseNext]_vars

BlockInit == /\ parser \in {NewParser(tokens) : tokens \in BlockStreams}
      /\ context = 1
      /\ statements = <<>>
      /\ parsing = "block"
      /\ openingBrace = 0
      /\ rBraceToken = 0
      /\ program = <<>>
      /\ pc = 0
      /\ environment = 1
      /\ newEnvironment = 0
      /\ st = NewEnvironment
      /\ prev = NewEnvironment
      /\ value = 0
      /\ status = "off"
      /\ result = 0

\* openingBrace := parser.consume(); statements := make([]Statement, 0)
parseBlockEnter == /\ parsing = "block"
      /\ openingBrace' = parser.position
      /\ parser' = consume(parser)
      /\ statements' = <<>>
      /\ parsing' = "loop"
      /\ UNCHANGED <<context, rBraceToken>>
      /\ UNCHANGED evaluation

\* An iteration on a semicolon: consume, continue.
parseBlockSemi == /\ parsing = "loop"
      /\ current(parser).type \notin {"EOF", "RBrace"}
      /\ current(parser).type = "Semi"
      /\ parser' = consume(parser)
      /\ UNCHANGED <<context, statements, parsing, openingBrace, rBraceToken>>
      /\ UNCHANGED evaluation

\* The iteration on a statement that comes out nil, with the consume after
\* the statement left out.
parseBlockDiscardInPlace == /\ parsing = "loop"
      /\ current(parser).type \notin {"EOF", "RBrace", "Semi"}
      /\ LET statement == parseStatement(parser, context) IN
           /\ statement.statement = NoNode
           /\ parser' = statement.parser
      /\ UNCHANGED <<context, statements, parsing, openingBrace, rBraceToken>>
      /\ UNCHANGED evaluation

\* An iteration on a statement that is kept: append, consume.
parseBlockAppend == /\ parsing = "loop"
      /\ current(parser).type \notin {"EOF", "RBrace", "Semi"}
      /\ LET statement == parseStatement(parser, context) IN
           /\ statement.statement # NoNode
           /\ statements' = Append(statements, statement.statement)
           /\ parser' = consume(statement.parser)
      /\ UNCHANGED <<context, parsing, openingBrace, rBraceToken>>
      /\ UNCHANGED evaluation

\* An iteration on a statement that comes out nil: consume all the same.
parseBlockDiscard == /\ parsing = "loop"
      /\ current(parser).type \notin {"EOF", "RBrace", "Semi"}
      /\ LET statement == parseStatement(parser, context) IN
           /\ statement.statement = NoNode
           /\ parser' = consume(statement.parser)
      /\ UNCHANGED <<context, statements, parsing, openingBrace, rBraceToken>>
      /\ UNCHANGED evaluation

\* The loop ended on a closing brace: it is the rBraceToken of the block.
parseBlockReturn == /\ parsing = "loop"
      /\ current(parser).type = "RBrace"
      /\ rBraceToken' = parser.position
      /\ parsing' = "returned"
      /\ UNCHANGED <<parser, context, statements, openingBrace>>
      /\ UNCHANGED evaluation

\* The loop ended on EOF: "Unclosed block" at the opening brace, and the
\* rBraceToken of the block is nil.
parseBlockUnclosed == /\ parsing = "loop"
      /\ current(parser).type = "EOF"
      /\ parser' = error(parser, openingBrace, "Unclosed block")
      /\ rBraceToken' = 0
      /\ parsing' = "returned"
      /\ UNCHANGED <<context, statements, openingBrace>>
      /\ UNCHANGED evaluation

BlockNext == \/ parseBlockEnter
      \/ parseBlockSemi
      \/ parseBlockAppend
      \/ parseBlockDiscard
      \/ parseBlockReturn
      \/ parseBlockUnclosed

BlockSpec == BlockInit /\ [][BlockNext]_vars

(***************************************************************************)
(* Reading the log.                                                        *)
(***************************************************************************)
Max(S) == CHOOSE x \in S : \A y \in S : y <= x

Min(S) == CHOOSE x \in S : \A y \in S : x <= y

\* The first event of the evaluation that ended as event i.
FirstOfSubtree(log, i) == LET earlier == {j \in 1..(i - 1) : log[j].d <= log[i].d} IN IF earlier = {} THEN 1 ELSE Max(earlier) + 1

\* The events of the sub-nodes event i evaluated itself.
Children(log, i) == {j \in FirstOfSubtree(log, i)..(i - 1) : log[j].d = log[i].d + 1}

\* The scopes from environment outward, nearest first.
RECURSIVE Chain(_, _)
Chain(snap, e) == IF e = 0 THEN <<>> ELSE <<e>> \o Chain(snap, snap.envs[e].parent)

\* The positions of Chain(snap, e) whose scope binds name.
Binders(snap, e, name) == {c \in 1..Len(Chain(snap, e)) : name \in DOMAIN snap.envs[Chain(snap, e)[c]].store}

\* The nearest scope binding name (Binders not empty).
Nearest(snap, e, name) == Chain(snap, e)[Min(Binders(snap, e, name))]

\* Truthiness: Boolean by value, Integer and Float nonzero, String nonempty,
\* everything else true.
Truthy(snap, a) == IF TypeOf(snap, a) = "Boolean" THEN snap.objs[a].b
      ELSE IF TypeOf(snap, a) = "Integer" THEN snap.objs[a].v # 0
      ELSE IF TypeOf(snap, a) = "Float" THEN snap.objs[a] # FloatObject(0, 1)
      ELSE IF TypeOf(snap, a) = "String" THEN snap.objs[a].s # ""
      ELSE TRUE

(***************************************************************************)
(* Claims about the evaluator, checked under Spec.                         *)
(***************************************************************************)
\* The programs of TestEvaluator that are one expression statement.
TestedPrograms == {<<ExpressionStatement(InfixExpression("+", IntegerLiteral(5), IntegerLiteral(5)))>>,
            <<ExpressionStatement(InfixExpression("+", StringLiteral("a"), StringLiteral("b")))>>,
            <<ExpressionStatement(PrefixExpression("!", PrefixExpression("!", IntegerLiteral(0))))>>,
            <<ExpressionStatement(InfixExpression("-", InfixExpression("+", IntegerLiteral(1), InfixExpression("*", IntegerLiteral(2), IntegerLiteral(3))), IntegerLiteral(4)))>>}

\* C1: Eval of a Program that is a single expression statement returns the
\* Object the expression evaluates to, not no-value (stated for the programs
\* of TestEvaluator, which parse without diagnostics).
C1_ProgramReturnsExpressionValue == (status = "returned" /\ program \in TestedPrograms) => (result = value /\ result # 0)

\* C2: for every Integer a, evaluating a / 0 ends with the Error sentinel as
\* its result, never in a host-level failure.
C2_DivisionByZeroIsError == \A a \in (-MaxInteger - 1)..MaxInteger : (pc = 2 /\ program = <<ExpressionStatement(InfixExpression("/", IntegerExpression(a), IntegerLiteral(0)))>>) => (status = "returned" /\ isError(st, value))

EventsOf(log, kind) == {i \in 1..Len(log) : log[i].node.k = kind}

Range(seq) == {seq[i] : i \in 1..Len(seq)}

\* Event k may rebind name in scope s: a successful assignment that resolves
\* to s, or a let or func of that name in s.
Rebinds(log, k, s, name) == /\ "name" \in DOMAIN log[k].node
      /\ log[k].node.name = name
      /\ \/ log[k].node.k \in {"LetStatement", "FunctionDefinitionStatement"} /\ log[k].env = s
         \/ /\ log[k].node.k = "AssignmentExpression"
            /\ Binders(log[k - 1].after, log[k].env, name) # {}
            /\ Nearest(log[k - 1].after, log[k].env, name) = s

\* Assignment event i, whose operand (event i - 1) is no Error: the state the
\* operand left is the state AssignObject ran in.
AssignmentEffect(log, i) == LET ev == log[i]
          operand == log[i - 1]
          was == operand.after
          now == ev.after
          name == ev.node.name
      IN IF Binders(was, ev.env, name) = {}
         THEN /\ isError(now, ev.r)
              /\ Len(now.envs) = Len(was.envs)
              /\ \A e \in 1..Len(was.envs) : DOMAIN now.envs[e].store = DOMAIN was.envs[e].store
         ELSE /\ ev.r = operand.r
              /\ now.objs = was.objs
              /\ Len(now.envs) = Len(was.envs)
              /\ \A e \in 1..Len(was.envs) :
                    /\ now.envs[e].parent = was.envs[e].parent
                    /\ DOMAIN now.envs[e].store = DOMAIN was.envs[e].store
                    /\ \A m \in DOMAIN was.envs[e].store : now.envs[e].store[m] = IF e = Nearest(was, ev.env, name) /\ m = name THEN operand.r ELSE was.envs[e].store[m]

\* Assignment event i ran in a scope nearer than the one it rebound, and
\* lookup event j sees that binding from outside the scope of i, with no
\* rebinding of it in between.
LooksUpAssigned(log, i, j) == /\ log[i].node.k = "AssignmentExpression"
      /\ log[j].node.k = "Identifier"
      /\ i < j
      /\ log[j].node.name = log[i].node.name
      /\ ~isError(log[i].after, log[i].r)
      /\ Nearest(log[i - 1].after, log[i].env, log[i].node.name) # log[i].env
      /\ log[i].env \notin Range(Chain(log[j].before, log[j].env))
      /\ Binders(log[j].before, log[j].env, log[j].node.name) # {}
      /\ Nearest(log[j].before, log[j].env, log[j].node.name) = Nearest(log[i - 1].after, log[i].env, log[i].node.name)
      /\ \A k \in (i + 1)..(j - 1) : ~Rebinds(log, k, Nearest(log[i - 1].after, log[i].env, log[i].node.name), log[i].node.name)

\* C5: an assignment x = e creates no binding: with x bound nowhere in the
\* chain the result is the Error sentinel and every scope binds the names it
\* bound before; otherwise exactly the nearest binding of x changes, to the
\* value of e, and a later lookup of x from outside the assigning scope
\* returns that value.
C5_AssignmentRebindsNearest == /\ \A i \in EventsOf(st.log, "AssignmentExpression") : ~isError(st.log[i - 1].after, st.log[i - 1].r) => AssignmentEffect(st.log, i)
      /\ \A i \in EventsOf(st.log, "AssignmentExpression") : \A j \in EventsOf(st.log, "Identifier") : LooksUpAssigned(st.log, i, j) => st.log[j].r = st.log[i].r

\* C5 witness: an assignment in an inner scope rebound an outer x, a lookup
\* after the scope's exit returned the new value, and an assignment to an
\* unbound name ended in Error.
C5_Witness == /\ \E i \in EventsOf(st.log, "AssignmentExpression") : \E j \in EventsOf(st.log, "Identifier") : LooksUpAssigned(st.log, i, j) /\ st.log[j].r = st.log[i].r
      /\ \E i \in EventsOf(st.log, "AssignmentExpression") : Binders(st.log[i - 1].after, st.log[i].env, st.log[i].node.name) = {} /\ ~isError(st.log[i - 1].after, st.log[i - 1].r) /\ isError(st.log[i].after, st.log[i].r)

\* The address increment event j found its name bound to, 0 if unbound.
IncrementedAddress(log, j) == IF Binders(log[j].before, log[j].env, log[j].node.name) = {} THEN 0 ELSE log[j].before.envs[Nearest(log[j].before, log[j].env, log[j].node.name)].store[log[j].node.name]

\* Increment event i of state s.
IncrementEffect(s, i) == LET ev == s.log[i]
          was == ev.before
          now == ev.after
          a == IncrementedAddress(s.log, i)
          delta == IF ev.node.op = "++" THEN 1 ELSE -1
      IN IF TypeOf(was, a) = "Integer"
         THEN /\ now.envs = was.envs
              /\ now.objs[a] = IntegerObject(Wrap(was.objs[a].v + delta))
              /\ \A b \in 1..Len(was.objs) : b # a => now.objs[b] = was.objs[b]
              /\ IF ev.node.pre
                 THEN ev.r = a /\ Len(now.objs) = Len(was.objs)
                 ELSE /\ ev.r = Len(was.objs) + 1
                      /\ Len(now.objs) = Len(was.objs) + 1
                      /\ now.objs[ev.r] = IntegerObject(was.objs[a].v)
                      /\ (\A j \in (i + 1)..Len(s.log) : s.log[j].node.k = "IncrementExpression" => IncrementedAddress(s.log, j) # ev.r) => s.objs[ev.r] = IntegerObject(was.objs[a].v)
         ELSE IF TypeOf(was, a) = "Float" THEN TRUE
         ELSE /\ isError(now, ev.r)
              /\ now.envs = was.envs
              /\ SubSeq(now.objs, 1, Len(was.objs)) = was.objs

\* C6: with x bound to Integer n, x++ returns Integer(n) in a cell of its own,
\* which later increments of x leave alone, and ++x returns Integer(n+1);
\* both leave x bound to n+1 (n-1 for --), in Integer arithmetic.  With x
\* unbound or not numeric the result is the Error sentinel and no binding or
\* value changes.
C6_IncrementPreAndPost == \A i \in EventsOf(st.log, "IncrementExpression") : IncrementEffect(st, i)

\* C6 witness: x++ on an Integer returned a copy, x was incremented again
\* later, and the copy still holds the old value.
C6_Witness == \E i \in EventsOf(st.log, "IncrementExpression") : \E j \in EventsOf(st.log, "IncrementExpression") :
      /\ i < j
      /\ ~st.log[i].node.pre
      /\ TypeOf(st.log[i].before, IncrementedAddress(st.log, i)) = "Integer"
      /\ IncrementedAddress(st.log, j) = IncrementedAddress(st.log, i)
      /\ st.objs[st.log[i].r] = IntegerObject(st.log[i].before.objs[IncrementedAddress(st.log, i)].v)
      /\ st.objs[IncrementedAddress(st.log, i)] = IntegerObject(st.log[i].before.objs[IncrementedAddress(st.log, i)].v + 2)

\* C7: in every construct, once a sub-node has evaluated to the Error
\* sentinel the construct evaluates nothing more, changes nothing more,
\* invokes no function, and returns that same Error: the next event is the
\* construct's own, one level up, with the same result and state.
C7_ErrorStopsConstruct == \A i \in 1..(Len(st.log) - 1) : (isError(st.log[i].after, st.log[i].r) /\ st.log[i].d > 1) =>
      /\ st.log[i + 1].d = st.log[i].d - 1
      /\ st.log[i + 1].r = st.log[i].r
      /\ st.log[i + 1].after = st.log[i].after

\* Event i of state s surfaced a Return sentinel inside a function body.
ReturnSurfaces(s, i) == LET ev == s.log[i] IN
      /\ ev.node.k \in {"ReturnStatement", "BlockStatement", "IfStatement", "WhileStatement"}
      /\ ev.node.k = "ReturnStatement" => s.log[i - 1].r = ev.after.objs[ev.r].obj
      /\ IF i = Len(s.log) THEN Halted(s)
         ELSE /\ s.log[i + 1].d = ev.d - 1
              /\ s.log[i + 1].after = ev.after
              /\ IF s.log[i + 1].fd = ev.fd
                 THEN s.log[i + 1].node.k \in {"BlockStatement", "IfStatement", "WhileStatement"} /\ s.log[i + 1].r = ev.r
                 ELSE s.log[i + 1].node.k = "CallExpression" /\ s.log[i + 1].fd = ev.fd - 1 /\ s.log[i + 1].r = ev.after.objs[ev.r].obj

\* C8: a return e executed in a function body, at any depth of block, if and
\* while, stops every enclosing block, if and while of the body at once, each
\* surfacing the same Return sentinel, and the call receives the value of e;
\* no call expression results in a Return sentinel.
C8_ReturnUnwindsToCall == /\ \A i \in 1..Len(st.log) : (TypeOf(st.log[i].after, st.log[i].r) = "Return" /\ st.log[i].fd > 0) => ReturnSurfaces(st, i)
      /\ \A i \in EventsOf(st.log, "CallExpression") : TypeOf(st.log[i].after, st.log[i].r) # "Return"

\* C8 witness: a call returned the value of a return statement three or more
\* levels down its body, inside a while loop.
C8_Witness == \E j \in EventsOf(st.log, "CallExpression") : \E i \in EventsOf(st.log, "ReturnStatement") : \E w \in EventsOf(st.log, "WhileStatement") :
      /\ FirstOfSubtree(st.log, j) <= i
      /\ i < w
      /\ w < j
      /\ FirstOfSubtree(st.log, w) <= i
      /\ st.log[i].fd = st.log[j].fd + 1
      /\ st.log[i].d >= st.log[j].d + 4
      /\ st.log[j].r # 0
      /\ st.log[j].r = st.log[i - 1].r

\* Logical event i: the left operand is its first child.
LogicalEffect(log, i) == LET ev == log[i]
          left == log[Min(Children(log, i))]
          right == log[i - 1]
          short == IF ev.node.op = "&&" THEN ~Truthy(left.after, left.r) ELSE Truthy(left.after, left.r)
      IN ~isError(left.after, left.r) =>
           IF short
           THEN /\ Children(log, i) = {i - 1}
                /\ ev.r = Len(left.after.objs) + 1
                /\ ev.after = [left.after EXCEPT !.objs = Append(@, BooleanObject(ev.node.op = "||"))]
           ELSE /\ Cardinality(Children(log, i)) = 2
                /\ ~isError(right.after, right.r) =>
                     /\ ev.r = Len(right.after.objs) + 1
                     /\ ev.after = [right.after EXCEPT !.objs = Append(@, BooleanObject(Truthy(right.after, right.r)))]

\* C10: l && r with l falsy, and l || r with l truthy, do not evaluate r: the
\* state is as l left it but for the result, Boolean(false) respectively
\* Boolean(true); otherwise r is evaluated once and the result is the Boolean
\* truthiness of the value of r.
C10_LogicalShortCircuit == \A i \in EventsOf(st.log, "InfixExpression") : st.log[i].node.op \in {"&&", "||"} => LogicalEffect(st.log, i)

\* C10 witness: a finished l && r whose l was falsy and whose r, an increment
\* of a bound Integer, did not run.
C10_Witness == \E i \in EventsOf(st.log, "InfixExpression") :
      /\ st.log[i].node.op = "&&"
      /\ st.log[i].node.l.k = "Identifier"
      /\ st.log[i].node.r.k = "IncrementExpression"
      /\ Binders(st.log[i].before, st.log[i].env, st.log[i].node.r.name) # {}
      /\ LET a == st.log[i].before.envs[Nearest(st.log[i].before, st.log[i].env, st.log[i].node.r.name)].store[st.log[i].node.r.name] IN
           /\ TypeOf(st.log[i].before, a) = "Integer"
           /\ st.log[i].after.objs[a] = st.log[i].before.objs[a]
      /\ ~Truthy(st.log[i - 1].after, st.log[i - 1].r)
      /\ Children(st.log, i) = {i - 1}
      /\ st.log[i].after.objs[st.log[i].r] = BooleanObject(FALSE)

(***************************************************************************)
(* Claims about the parser, checked under ParseSpec.                       *)
(***************************************************************************)
\* C3: after any sequence of let and func declarations parsed in one scope,
\* no name has been defined twice in that scope.
C3_NoNameDefinedTwice == \A c \in 1..Len(parser.contexts) : \A i \in 1..Len(parser.contexts[c].defined) : \A j \in 1..Len(parser.contexts[c].defined) :
      i # j => parser.contexts[c].defined[i] # parser.contexts[c].defined[j]

\* let x := 1; { let x := 2; }
ShadowedInBlock == LetTokens("x", Token("Int", "1")) \o BlockTokens(LetTokens("x", Token("Int", "2"))) \o <<Mark("EOF")>>

\* C4: parsing let x := 1; { let x := 2; } records no diagnostic, keeps the
\* inner let in the statements of the block, and leaves the binding of x in
\* the outer scope as it was.
C4_BlockShadowsEnclosingLet == (parsing = "done" /\ parser.tokens = ShadowedInBlock) =>
      /\ parser.errors = <<>>
      /\ Len(statements) = 2
      /\ statements[2].k = "BlockStatement"
      /\ statements[2].stmts = <<LetStatement("x", IntegerLiteral(2))>>
      /\ GetInThisScope(parser, context, "x") = [type |-> IntegerType, exists |-> TRUE]

\* The reachability rule for a statement: a return guarantees return, an if
\* whose then and else branches both do, and a block whose last statement
\* among returns, ifs, whiles and blocks does.
RECURSIVE GuaranteesReturn(_)
GuaranteesReturn(statement) == IF statement.k = "ReturnStatement" THEN TRUE
      ELSE IF statement.k = "IfStatement" THEN GuaranteesReturn(statement.s) /\ GuaranteesReturn(statement.alt)
      ELSE IF statement.k = "BlockStatement" THEN \E i \in 1..Len(statement.stmts) :
            /\ statement.stmts[i].k \in {"ReturnStatement", "IfStatement", "WhileStatement", "BlockStatement"}
            /\ \A j \in (i + 1)..Len(statement.stmts) : statement.stmts[j].k \notin {"ReturnStatement", "IfStatement", "WhileStatement", "BlockStatement"}
            /\ GuaranteesReturn(statement.stmts[i])
      ELSE FALSE

\* The function definition has the diagnostic at the closing brace of its body.
MissingReturn(function) == \E e \in 1..Len(parser.errors) : parser.errors[e] = [token |-> function.body.rBrace, message |-> "Missing return statement"]

FunctionsParsed == {i \in 1..Len(statements) : statements[i].k = "FunctionDefinitionStatement"}

\* C9: a function definition with a return type other than Void has the
\* diagnostic "Missing return statement" exactly when its body does not
\* guarantee return; one with the return type Void never has it.
C9_MissingReturnDiagnostic == \A i \in FunctionsParsed :
      MissingReturn(statements[i]) <=> (statements[i].returnType # VoidType /\ ~GuaranteesReturn(statements[i].body))

\* C9 witness: parsing is done, and a function returning Integer whose body
\* is an if with a return and no else has the diagnostic.
C9_Witness == /\ parsing = "done"
      /\ \E i \in FunctionsParsed :
            /\ statements[i].returnType = IntegerType
            /\ MissingReturn(statements[i])
            /\ Len(statements[i].body.stmts) = 1
            /\ statements[i].body.stmts[1].k = "IfStatement"
            /\ statements[i].body.stmts[1].s.k = "ReturnStatement"
            /\ statements[i].body.stmts[1].alt = NoNode

(***************************************************************************)
(* Claims about parseBlockStatement, checked under BlockSpec.              *)
(***************************************************************************)
\* The diagnostic of the block that began at openingBrace.
UnclosedBlock == \E e \in 1..Len(parser.errors) : parser.errors[e] = [token |-> openingBrace, message |-> "Unclosed block"]

\* Where parseBlockStatement stops: on a closing brace, which the block
\* returned has as its rBraceToken, with no "Unclosed block" for it, or on
\* EOF, with that diagnostic and no rBraceToken.
BlockStopped == IF current(parser).type = "RBrace" THEN rBraceToken = parser.position /\ ~UnclosedBlock
      ELSE current(parser).type = "EOF" /\ rBraceToken = 0 /\ UnclosedBlock

\* C11: on every token stream that ends in EOF parseBlockStatement
\* terminates: every iteration of its loop moves the parser on by one token
\* or more, also when the statement is nil and discarded, and never past
\* EOF, so the loop has no more iterations than the stream has tokens; it
\* stops on a closing brace or on EOF, and has recorded "Unclosed block"
\* exactly when it stopped on EOF.
C11_BlockStatementTerminates == /\ [][(parsing = "loop" /\ parsing' = "loop") => parser'.position > parser.position]_vars
      /\ [](parser.position <= Len(parser.tokens))
      /\ [](parsing = "returned" => BlockStopped)

\* C11 witness: parseBlockStatement has returned on EOF with "Unclosed block"
\* recorded, after a let of a name already defined came out nil and was
\* discarded, and the statements around it were kept.
C11_Witness == /\ parsing = "returned"
      /\ current(parser).type = "EOF"
      /\ UnclosedBlock
      /\ \E e \in 1..Len(parser.errors) : parser.errors[e].message = "Cannot redefine 'x'"
      /\ statements = <<LetStatement("x", IntegerLiteral(1))>>

====
